---- MODULE Spec2Model ----
(***************************************************************************)
(* A model of app.py: the register / login / logout / index handlers of    *)
(* the journal application, the same-origin test applied to the login      *)
(* redirect, and the completion-service client with its fallback.          *)
(*                                                                         *)
(* The server handles each request on a thread of its own (app.run), and   *)
(* the requests of the threads interleave at every point where a handler   *)
(* waits: a request is received, its handler runs from one access to the   *)
(* store or to the completion service to the next, and its response is     *)
(* sent, each a step of its own.  The session of a browser is the cookie   *)
(* it holds: a request carries the cookie as it is when the request is     *)
(* received, and the response of a request that has written to its session *)
(* (flash, login_user, logout_user) replaces the cookie by that session.   *)
(*                                                                         *)
(* An optional value (the result of request.form.get / request.args.get)   *)
(* is a record [some |-> FALSE] for None and [some |-> TRUE, v |-> s] for  *)
(* a string s.                                                             *)
(***************************************************************************)
EXTENDS Integers, Sequences, FiniteSets, TLC

VARIABLES
    users,      \* table users: sequence of rows [id, username, password_hash]
    entries,    \* table entries: sequence of rows
                \*   [id, user_id, addiction_type, description, response, created_at]
    session,    \* per browser: the user id held by its session cookie, 0 = none
    auth,       \* per browser: its last authentication event (history)
    pending     \* per request thread: the request it is handling, with its
                \*   response once the handler has returned

vars == <<users, entries, session, auth, pending>>

(***************************************************************************)
(* Optional values and strings.  A string is a TLA+ string over the        *)
(* printable ASCII characters and the control characters TLA+ has escapes  *)
(* for: tab, line feed, form feed, carriage return.                        *)
(***************************************************************************)
None == [some |-> FALSE]
Some(s) == [some |-> TRUE, v |-> s]

\* Python truthiness of an Optional[str]: None and "" are falsy.
Truthy(x) == x.some /\ x.v # ""

Char(s, i) == SubSeq(s, i, i)

CharsOf(s) == { Char(s, i) : i \in 1..Len(s) }

\* n copies of the string c.
RECURSIVE Rep(_, _)
Rep(c, n) ==
    IF n = 0 THEN ""
    ELSE IF n % 2 = 0 THEN Rep(c \o c, n \div 2)
    ELSE c \o Rep(c, n - 1)

UpperLetters == "ABCDEFGHIJKLMNOPQRSTUVWXYZ"
LowerLetters == "abcdefghijklmnopqrstuvwxyz"
Digits == "0123456789"

\* The least index >= from of a character of s that is in cs, Len(s) + 1 if none.
RECURSIVE FindAny(_, _, _)
FindAny(s, cs, from) ==
    IF from > Len(s) THEN Len(s) + 1
    ELSE IF Char(s, from) \in cs THEN from
    ELSE FindAny(s, cs, from + 1)

\* The greatest index of the character c in s, 0 if none.
RECURSIVE RFind(_, _, _)
RFind(s, c, from) ==
    IF from = 0 THEN 0
    ELSE IF Char(s, from) = c THEN from
    ELSE RFind(s, c, from - 1)

LowerChar(c) ==
    IF c \in CharsOf(UpperLetters)
    THEN Char(LowerLetters, FindAny(UpperLetters, {c}, 1))
    ELSE c

\* str.lower()
RECURSIVE Lower(_)
Lower(s) == IF s = "" THEN "" ELSE LowerChar(Char(s, 1)) \o Lower(SubSeq(s, 2, Len(s)))

\* str.lstrip(cs) and str.rstrip(cs)
RECURSIVE LStrip(_, _)
LStrip(s, cs) ==
    IF s # "" /\ Char(s, 1) \in cs THEN LStrip(SubSeq(s, 2, Len(s)), cs) ELSE s

RECURSIVE RStrip(_, _)
RStrip(s, cs) ==
    IF s # "" /\ Char(s, Len(s)) \in cs THEN RStrip(SubSeq(s, 1, Len(s) - 1), cs) ELSE s

\* s.replace(c, "") for every c of cs
RECURSIVE Remove(_, _)
Remove(s, cs) ==
    IF s = "" THEN ""
    ELSE (IF Char(s, 1) \in cs THEN "" ELSE Char(s, 1)) \o Remove(SubSeq(s, 2, Len(s)), cs)

\* str.split(sep) for a separator of one character: the sequence of pieces.
RECURSIVE Split(_, _)
SplitAt(s, sep, i) ==
    IF i > Len(s) THEN <<s>>
    ELSE <<SubSeq(s, 1, i - 1)>> \o Split(SubSeq(s, i + 1, Len(s)), sep)

Split(s, sep) == SplitAt(s, sep, FindAny(s, {sep}, 1))

\* sep.join(pieces)
RECURSIVE Join(_, _)
Join(pieces, sep) ==
    IF pieces = << >> THEN ""
    ELSE IF Len(pieces) = 1 THEN pieces[1]
    ELSE pieces[1] \o sep \o Join(Tail(pieces), sep)

\* The two halves of s around the character at i: s.split(c, 1) where i is
\* the place of the first c, or s and "" when there is none.
Halves(s, i) ==
    IF i > Len(s) THEN [head |-> s, tail |-> ""]
    ELSE [head |-> SubSeq(s, 1, i - 1), tail |-> SubSeq(s, i + 1, Len(s))]

\* The characters of the alphabet above that str.isspace() holds of.
Whitespace == {" ", "\t", "\n", "\r", "\f"}

\* str.strip()
Strip(s) == RStrip(LStrip(s, Whitespace), Whitespace)

(***************************************************************************)
(* ipaddress, as far as urlsplit uses it: whether a string is an IPv6      *)
(* address.                                                                *)
(***************************************************************************)
HexDigits == CharsOf("0123456789abcdefABCDEF")

DigitValue(c) == FindAny(Digits, {c}, 1) - 1

\* The number a string of at most three decimal digits denotes.
RECURSIVE Decimal(_)
Decimal(s) ==
    IF s = "" THEN 0
    ELSE 10 * Decimal(SubSeq(s, 1, Len(s) - 1)) + DigitValue(Char(s, Len(s)))

\* IPv4Address._parse_octet returns without raising.
parse_octet_ok(octet_str) ==
    /\ octet_str # ""
    /\ CharsOf(octet_str) \subseteq CharsOf(Digits)
    /\ Len(octet_str) <= 3
    /\ octet_str = "0" \/ Char(octet_str, 1) # "0"
    /\ Decimal(octet_str) <= 255

AllOctetsOk(octets) == \A i \in DOMAIN octets : parse_octet_ok(octets[i])

\* IPv4Address(address) returns without raising.
IPv4Address_ok(address) ==
    /\ "/" \notin CharsOf(address)
    /\ address # ""
    /\ Len(Split(address, ".")) = 4
    /\ AllOctetsOk(Split(address, "."))

\* IPv6Address._parse_hextet returns without raising.
parse_hextet_ok(hextet_str) ==
    /\ CharsOf(hextet_str) \subseteq HexDigits
    /\ Len(hextet_str) <= 4
    /\ hextet_str # ""

HextetCount == 8

\* The tests of IPv6Address._ip_int_from_string on the parts around "::",
\* the part at index skip (counted from 0) being the empty one.
skipped_ok(parts, parts_hi, parts_lo) ==
    /\ HextetCount - (parts_hi + parts_lo) >= 1
    /\ \A i \in 1..parts_hi : parse_hextet_ok(parts[i])
    /\ \A i \in (Len(parts) - parts_lo + 1)..Len(parts) : parse_hextet_ok(parts[i])

with_skip_ok(parts, skip_index) ==
    /\ parts[1] = "" => skip_index - 1 = 0
    /\ parts[Len(parts)] = "" => Len(parts) - skip_index - 2 = 0
    /\ skipped_ok(parts,
                  IF parts[1] = "" THEN skip_index - 1 ELSE skip_index,
                  IF parts[Len(parts)] = "" THEN Len(parts) - skip_index - 2
                  ELSE Len(parts) - skip_index - 1)

without_skip_ok(parts) ==
    /\ Len(parts) = HextetCount
    /\ parts[1] # ""
    /\ parts[Len(parts)] # ""
    /\ \A i \in DOMAIN parts : parse_hextet_ok(parts[i])

\* The indices, counted from 0, of the empty parts that are not the first or
\* the last.
EmptyInside(parts) == { i \in 1..(Len(parts) - 2) : parts[i + 1] = "" }

hextets_ok(parts) ==
    /\ Len(parts) <= HextetCount + 1
    /\ Cardinality(EmptyInside(parts)) <= 1
    /\ IF EmptyInside(parts) # {}
       THEN with_skip_ok(parts, CHOOSE i \in EmptyInside(parts) : TRUE)
       ELSE without_skip_ok(parts)

\* An IPv4-style suffix is replaced by the two hextets of its value, which
\* are hextets whatever the value: "0" stands for each.
suffix_ok(parts) ==
    IF "." \in CharsOf(parts[Len(parts)])
    THEN /\ IPv4Address_ok(parts[Len(parts)])
         /\ hextets_ok(SubSeq(parts, 1, Len(parts) - 1) \o <<"0", "0">>)
    ELSE hextets_ok(parts)

\* IPv6Address._ip_int_from_string returns without raising.
ip_int_from_string_ok(ip_str) ==
    /\ ip_str # ""
    /\ Len(Split(ip_str, ":")) >= 3
    /\ suffix_ok(Split(ip_str, ":"))

\* IPv6Address._split_scope_id, i being the place of the first "%".
scoped_ok(ip_str, i) ==
    IF i > Len(ip_str) THEN ip_int_from_string_ok(ip_str)
    ELSE /\ i < Len(ip_str)
         /\ "%" \notin CharsOf(SubSeq(ip_str, i + 1, Len(ip_str)))
         /\ ip_int_from_string_ok(SubSeq(ip_str, 1, i - 1))

\* IPv6Address(address) returns without raising.
IPv6Address_ok(address) ==
    /\ "/" \notin CharsOf(address)
    /\ scoped_ok(address, FindAny(address, {"%"}, 1))

(***************************************************************************)
(* urllib.parse: urlsplit, urlparse, urlunsplit, urlunparse and urljoin.   *)
(* A parse result is a record whose field ok is FALSE when the function    *)
(* raises ValueError.                                                      *)
(***************************************************************************)
SchemeChars == CharsOf(LowerLetters) \cup CharsOf(UpperLetters) \cup CharsOf(Digits)
                   \cup {"+", "-", "."}

UsesRelative == {"", "ftp", "http", "gopher", "nntp", "imap", "wais", "file", "https",
                 "shttp", "mms", "prospero", "rtsp", "rtsps", "rtspu", "sftp", "svn",
                 "svn+ssh", "ws", "wss"}

UsesNetloc == {"", "ftp", "http", "gopher", "nntp", "telnet", "imap", "wais", "file",
               "mms", "https", "shttp", "snews", "prospero", "rtsp", "rtsps", "rtspu",
               "rsync", "svn", "svn+ssh", "sftp", "nfs", "git", "git+ssh", "ws", "wss"}

UsesParams == {"", "ftp", "hdl", "prospero", "http", "imap", "https", "shttp", "rtsp",
               "rtsps", "rtspu", "sip", "sips", "mms", "sftp", "tel"}

\* _WHATWG_C0_CONTROL_OR_SPACE, as far as it lies in the alphabet of the
\* model, and _UNSAFE_URL_BYTES_TO_REMOVE
C0ControlOrSpace == {" ", "\t", "\n", "\r", "\f"}
UnsafeUrlBytesToRemove == {"\t", "\r", "\n"}

Letters == CharsOf(UpperLetters) \cup CharsOf(LowerLetters)

\* The regular expression \Av[a-fA-F0-9]+\..+\Z matches hostname, dot being
\* the place of the first character after the "v" that is not a hex digit;
\* the "." of the expression matches every character but the line feed.
IPvFuture(hostname, dot) ==
    /\ dot >= 3
    /\ dot < Len(hostname)
    /\ Char(hostname, dot) = "."
    /\ "\n" \notin CharsOf(SubSeq(hostname, dot + 1, Len(hostname)))

\* _check_bracketed_host returns without raising.
check_bracketed_host_ok(hostname) ==
    IF hostname # "" /\ Char(hostname, 1) = "v"
    THEN IPvFuture(hostname,
                   FindAny(hostname, { Char(hostname, i) : i \in 1..Len(hostname) } \ HexDigits, 2))
    ELSE IPv6Address_ok(hostname)

\* s.partition(c)[2] and s.partition(c)[0]
AfterFirst(s, c) == SubSeq(s, FindAny(s, {c}, 1) + 1, Len(s))
BeforeFirst(s, c) == SubSeq(s, 1, FindAny(s, {c}, 1) - 1)

\* The tests urlsplit makes of a netloc pass.
netloc_ok(netloc) ==
    IF "[" \in CharsOf(netloc) /\ "]" \in CharsOf(netloc)
    THEN check_bracketed_host_ok(BeforeFirst(AfterFirst(netloc, "["), "]"))
    ELSE "[" \notin CharsOf(netloc) /\ "]" \notin CharsOf(netloc)

\* urlsplit, the scheme: url[:i] is a scheme when i, the place of the first
\* ":", is past the first character, which is a letter, and url[:i] is made
\* of scheme characters.
HasScheme(url, colon) ==
    /\ colon >= 2
    /\ colon <= Len(url)
    /\ Char(url, 1) \in Letters
    /\ \A i \in 1..(colon - 1) : Char(url, i) \in SchemeChars

SplitScheme(url, scheme, colon) ==
    IF HasScheme(url, colon)
    THEN [scheme |-> Lower(SubSeq(url, 1, colon - 1)),
          url |-> SubSeq(url, colon + 1, Len(url))]
    ELSE [scheme |-> scheme, url |-> url]

\* _splitnetloc(url, 2), delim being the place of the first of "/", "?", "#"
\* after the two slashes.
splitnetloc(url, delim) ==
    [netloc |-> SubSeq(url, 3, delim - 1), url |-> SubSeq(url, delim, Len(url))]

SplitNetloc(url) ==
    IF Len(url) >= 2 /\ SubSeq(url, 1, 2) = "//"
    THEN splitnetloc(url, FindAny(url, {"/", "?", "#"}, 3))
    ELSE [netloc |-> "", url |-> url]

SplitResult(scheme, netloc, q, fragment) ==
    [ok |-> netloc_ok(netloc), scheme |-> scheme, netloc |-> netloc,
     path |-> q.head, query |-> q.tail, fragment |-> fragment]

SplitQuery(scheme, netloc, f) ==
    SplitResult(scheme, netloc, Halves(f.head, FindAny(f.head, {"?"}, 1)), f.tail)

SplitFragment(scheme, n) ==
    SplitQuery(scheme, n.netloc, Halves(n.url, FindAny(n.url, {"#"}, 1)))

SplitRest(p) == SplitFragment(p.scheme, SplitNetloc(p.url))

SplitCleaned(url, scheme) == SplitRest(SplitScheme(url, scheme, FindAny(url, {":"}, 1)))

\* urlsplit(url, scheme): [ok, scheme, netloc, path, query, fragment].
urlsplit(url, scheme) ==
    SplitCleaned(Remove(LStrip(url, C0ControlOrSpace), UnsafeUrlBytesToRemove),
                 Remove(RStrip(LStrip(scheme, C0ControlOrSpace), C0ControlOrSpace),
                        UnsafeUrlBytesToRemove))

\* _splitparams(url), slash being the place of the last "/", 0 if none.
splitparams(url, slash) ==
    Halves(url, FindAny(url, {";"}, IF slash = 0 THEN 1 ELSE slash))

WithParams(s, p) ==
    [ok |-> s.ok, scheme |-> s.scheme, netloc |-> s.netloc, path |-> p.head,
     params |-> p.tail, query |-> s.query, fragment |-> s.fragment]

ParseResult(s) ==
    IF s.scheme \in UsesParams /\ ";" \in CharsOf(s.path)
    THEN WithParams(s, splitparams(s.path, RFind(s.path, "/", Len(s.path))))
    ELSE WithParams(s, [head |-> s.path, tail |-> ""])

\* urlparse(url, scheme): [ok, scheme, netloc, path, params, query, fragment].
urlparse(url, scheme) == ParseResult(urlsplit(url, scheme))

\* urlunsplit((scheme, netloc, url, query, fragment))
urlunsplit(scheme, netloc, url, query, fragment) ==
    (IF scheme # "" THEN scheme \o ":" ELSE "")
        \o (IF \/ netloc # ""
               \/ /\ scheme # ""
                  /\ scheme \in UsesNetloc
                  /\ ~(Len(url) >= 2 /\ SubSeq(url, 1, 2) = "//")
            THEN "//" \o netloc \o (IF url # "" /\ Char(url, 1) # "/" THEN "/" ELSE "") \o url
            ELSE url)
        \o (IF query # "" THEN "?" \o query ELSE "")
        \o (IF fragment # "" THEN "#" \o fragment ELSE "")

\* urlunparse((scheme, netloc, url, params, query, fragment))
urlunparse(scheme, netloc, url, params, query, fragment) ==
    urlunsplit(scheme, netloc, IF params # "" THEN url \o ";" \o params ELSE url,
               query, fragment)

\* urljoin: base_parts, the segments of the base path without the last one
\* unless that is empty.
base_parts(parts) ==
    IF parts[Len(parts)] # "" THEN SubSeq(parts, 1, Len(parts) - 1) ELSE parts

\* segments[1:-1] = filter(None, segments[1:-1])
FilterInside(segments) ==
    IF Len(segments) < 2 THEN segments
    ELSE <<segments[1]>>
             \o SelectSeq(SubSeq(segments, 2, Len(segments) - 1), LAMBDA seg : seg # "")
             \o <<segments[Len(segments)]>>

segments_of(bpath, path) ==
    IF path # "" /\ Char(path, 1) = "/"
    THEN Split(path, "/")
    ELSE FilterInside(base_parts(Split(bpath, "/")) \o Split(path, "/"))

\* The loop of urljoin over the segments from the i-th on.
RECURSIVE resolve(_, _, _)
resolve(segments, i, resolved_path) ==
    IF i > Len(segments) THEN resolved_path
    ELSE IF segments[i] = ".."
    THEN resolve(segments, i + 1,
                 IF resolved_path = << >> THEN << >>
                 ELSE SubSeq(resolved_path, 1, Len(resolved_path) - 1))
    ELSE IF segments[i] = "."
    THEN resolve(segments, i + 1, resolved_path)
    ELSE resolve(segments, i + 1, Append(resolved_path, segments[i]))

resolved_path_of(segments) ==
    IF segments[Len(segments)] \in {".", ".."}
    THEN Append(resolve(segments, 1, << >>), "")
    ELSE resolve(segments, 1, << >>)

OrSlash(path) == IF path = "" THEN "/" ELSE path

Joined(url) == [ok |-> TRUE, url |-> url]
JoinRaises == [ok |-> FALSE, url |-> ""]

\* urljoin from the test of the path on, netloc being the netloc it has
\* settled on.
JoinPath(b, u, netloc) ==
    IF u.path = "" /\ u.params = ""
    THEN Joined(urlunparse(u.scheme, netloc, b.path, b.params,
                           IF u.query = "" THEN b.query ELSE u.query, u.fragment))
    ELSE Joined(urlunparse(u.scheme, netloc,
                           OrSlash(Join(resolved_path_of(segments_of(b.path, u.path)), "/")),
                           u.params, u.query, u.fragment))

\* urljoin, once base and url are parsed into b and u.
JoinParsed(url, b, u) ==
    IF ~u.ok THEN JoinRaises
    ELSE IF u.scheme # b.scheme \/ u.scheme \notin UsesRelative
    THEN Joined(url)
    ELSE IF u.scheme \in UsesNetloc /\ u.netloc # ""
    THEN Joined(urlunparse(u.scheme, u.netloc, u.path, u.params, u.query, u.fragment))
    ELSE JoinPath(b, u, IF u.scheme \in UsesNetloc THEN b.netloc ELSE u.netloc)

JoinBase(url, b) ==
    IF ~b.ok THEN JoinRaises ELSE JoinParsed(url, b, urlparse(url, b.scheme))

\* urljoin(base, url): [ok, url]; ok = FALSE when it raises ValueError.
urljoin(base, url) ==
    IF base = "" THEN Joined(url)
    ELSE IF url = "" THEN Joined(base)
    ELSE JoinBase(url, urlparse(base, ""))

\* request.host_url of the deployment.
HostUrl == "http://localhost/"

\* Line 44 of is_safe_url.
SameNetloc(ref_url, test_url) ==
    IF ~ref_url.ok \/ ~test_url.ok THEN "raise"
    ELSE IF test_url.scheme \in {"http", "https"} /\ ref_url.netloc = test_url.netloc
    THEN "safe"
    ELSE "unsafe"

\* Lines 43-44 of is_safe_url, once urljoin has returned.
TestJoined(ref_url, joined) ==
    IF ~joined.ok THEN "raise" ELSE SameNetloc(ref_url, urlparse(joined.url, ""))

\* is_safe_url(target): "safe", "unsafe", or "raise" when urllib raises ValueError.
is_safe_url(target) == TestJoined(urlparse(HostUrl, ""), urljoin(HostUrl, target))

(***************************************************************************)
(* werkzeug.security: a password hash is "method$salt$digest".  Digest     *)
(* stands for the key-derivation function: it is injective in both         *)
(* arguments and is never the password itself.                             *)
(***************************************************************************)
Salts == {"Zx9q"}

Digest(salt, password) == "kdf(" \o salt \o "," \o password \o ")"

generate_password_hash(password, salt) ==
    "scrypt$" \o salt \o "$" \o Digest(salt, password)

HashDigestIs(pwhash, password, d1, d2) ==
    /\ d2 <= Len(pwhash)
    /\ SubSeq(pwhash, d2 + 1, Len(pwhash)) = Digest(SubSeq(pwhash, d1 + 1, d2 - 1), password)

HashSaltFrom(pwhash, password, d1) ==
    HashDigestIs(pwhash, password, d1, FindAny(pwhash, {"$"}, d1 + 1))

check_password_hash(pwhash, password) ==
    HashSaltFrom(pwhash, password, FindAny(pwhash, {"$"}, 1))

(***************************************************************************)
(* The completion service.  An outcome of requests.post is a connection    *)
(* failure or a response with a status code and a body; a body is not JSON *)
(* or is a JSON value.                                                     *)
(***************************************************************************)
NotCalled == [kind |-> "not_called"]
ConnectionFailure == [kind |-> "connection_error"]
Response(code, body) == [kind |-> "response", status_code |-> code, body |-> body]

NotJson == [json |-> FALSE]
Json(v) == [json |-> TRUE, value |-> v]

JsonReply == [choices |-> << [message |-> [role |-> "assistant",
                                           content |-> "\f You are not alone. \n"]] >>]
JsonError == [error |-> "model overloaded"]
JsonNoChoice == [choices |-> << >>]
JsonNoContent == [choices |-> << [message |-> [role |-> "assistant"]] >>]

ServiceOutcomes ==
    { ConnectionFailure,
      Response(500, NotJson),
      Response(429, Json(JsonError)),
      Response(200, NotJson),
      Response(200, Json(JsonReply)),
      Response(200, Json(JsonError)),
      Response(200, Json(JsonNoChoice)),
      Response(200, Json(JsonNoContent)) }

FallbackReply ==
    "I'm sorry, I'm having trouble responding right now. Please reach out to a professional."

Returned(text) == [raised |-> FALSE, text |-> text, exc |-> ""]
Raised(exc) == [raised |-> TRUE, text |-> "", exc |-> exc]

\* response.raise_for_status() raises HTTPError for 4xx and 5xx.
raises_for_status(code) == 400 <= code /\ code < 600

\* response.json()["choices"][0]["message"]["content"].strip(): the text, or
\* the exception the expression raises.  response.json() raises
\* requests.exceptions.JSONDecodeError, a RequestException.
extract_content(body) ==
    IF ~body.json THEN Raised("RequestException")
    ELSE IF "choices" \notin DOMAIN body.value THEN Raised("KeyError")
    ELSE IF Len(body.value.choices) = 0 THEN Raised("IndexError")
    ELSE IF "message" \notin DOMAIN body.value.choices[1] THEN Raised("KeyError")
    ELSE IF "content" \notin DOMAIN body.value.choices[1].message THEN Raised("KeyError")
    ELSE Returned(Strip(body.value.choices[1].message.content))

\* The except clause of get_xai_response: which exceptions it turns into the
\* fallback reply.
Caught == {"RequestException"}

\* Lines 65-72 of get_xai_response when requests.post has the outcome svc.
try_post(svc) ==
    IF svc.kind = "connection_error" THEN Raised("RequestException")
    ELSE IF raises_for_status(svc.status_code) THEN Raised("RequestException")
    ELSE extract_content(svc.body)

Fallback(tried) ==
    IF tried.raised /\ tried.exc \in Caught THEN Returned(FallbackReply) ELSE tried

\* get_xai_response(user_input) when requests.post has the outcome svc.
get_xai_response(user_input, svc) == Fallback(try_post(svc))

(***************************************************************************)
(* The requests the model issues.                                          *)
(***************************************************************************)
Clients == {"browserA", "browserB"}
Threads == {"t1", "t2"}

MaxCategoryLen == 100
MaxDescriptionLen == 1000
MinUsernameLen == 3
MinPasswordLen == 6

CategoryInputs ==
    {None, Some(""), Some(Rep("c", MaxCategoryLen)), Some(Rep("c", MaxCategoryLen + 1))}
DescriptionInputs ==
    {None, Some(""), Some(Rep("d", MaxDescriptionLen)),
     Some(Rep("d", MaxDescriptionLen + 1))}

NextInputs ==
    {None, Some(""), Some("/?page=2"), Some("https://localhost/"), Some("a//b"),
     Some("//evil.example/"), Some("http://evil.example/login"), Some(" //evil.example"),
     Some("///evil.example"), Some("javascript:alert(1)"), Some("//[::1]/"),
     Some("//["), Some("//[localhost]/")}

\* The entry forms: the form at both limits, and each field varied alone.
EntryForms ==
    [addiction_type : {Some(Rep("c", MaxCategoryLen))}, description : DescriptionInputs]
        \cup [addiction_type : CategoryInputs, description : {Some(Rep("d", MaxDescriptionLen))}]
NoForm == [username |-> None, password |-> None]
NoEntryForm == [addiction_type |-> None, description |-> None]

\* The number of entries the model stores.
MaxEntries == 3
\* The number of users the model stores.
MaxUsers == 2

(***************************************************************************)
(* Persistence: the tables and the queries the handlers run.               *)
(***************************************************************************)
\* User.query.filter_by(username=username).first(): the rows with that name,
\* in table order.
filter_by_username(us, username) ==
    SelectSeq(us, LAMBDA row : row.username = username)

\* load_user: User.query.get(int(user_id)), as a sequence of at most one row.
load_user(us, user_id) ==
    SelectSeq(us, LAMBDA row : row.id = user_id)

\* The primary key a table gives its next row (the models module declares the
\* columns): 1, 2, 3, ...
next_id(table) == Len(table) + 1

\* The creation time a new entry is given (the models module declares the
\* column's default): a clock that has advanced since the entry before.
utcnow(es) == Len(es) + 1

\* User(username=..., password_hash=...), with the id the table assigns.
User(us, username, password_hash) ==
    [id |-> next_id(us), username |-> username, password_hash |-> password_hash]

\* db.session.add(row); db.session.commit(): the store serializes the write
\* and adds the row; it applies no test of its own to the row.
db_add_commit(table, row) == Append(table, row)

\* Entry(user_id=..., addiction_type=..., description=..., response=...), with
\* the id and the creation time the table assigns.
Entry(es, user_id, addiction_type, description, response) ==
    [id |-> next_id(es), user_id |-> user_id, addiction_type |-> addiction_type,
     description |-> description, response |-> response, created_at |-> utcnow(es)]

\* The place in rows of the row .order_by(Entry.created_at.desc()) puts first.
Latest(rows) ==
    CHOOSE k \in 1..Len(rows) :
        \A j \in 1..Len(rows) :
            \/ rows[j].created_at < rows[k].created_at
            \/ (rows[j].created_at = rows[k].created_at /\ k <= j)

Without(rows, i) == [j \in 1..(Len(rows) - 1) |-> IF j < i THEN rows[j] ELSE rows[j + 1]]

\* .order_by(Entry.created_at.desc()): the rows of a sequence, latest first.
RECURSIVE order_by_created_at_desc(_)
LatestFirst(rows, i) == <<rows[i]>> \o order_by_created_at_desc(Without(rows, i))

order_by_created_at_desc(rows) ==
    IF rows = << >> THEN << >> ELSE LatestFirst(rows, Latest(rows))

\* The entries query without its filter.
filter_by_nothing(es, user_id) == es

\* Entry.query.filter_by(user_id=current_user.id)
filter_by_user_id(es, user_id) ==
    SelectSeq(es, LAMBDA row : row.user_id = user_id)

\* Entry.query.filter_by(user_id=...).order_by(Entry.created_at.desc()).all()
entries_of(es, user_id) == order_by_created_at_desc(filter_by_user_id(es, user_id))

(***************************************************************************)
(* Requests, their sessions and their responses.                           *)
(***************************************************************************)
\* The response of a request.
Reply(status, location, flash) ==
    [status |-> status, location |-> location, flash |-> flash, listing |-> << >>,
     svc |-> NotCalled]

NoReply == Reply(0, "", "")

\* A thread without a request.
Idle == [busy |-> FALSE]

\* A request of browser c as its thread receives it.  cookie is the user id of
\* the session cookie the request carries; user_id and modified are the
\* session object of the request, opened from that cookie; event is the
\* authentication event of the request, if it comes to one.
Request(c, route, method, form, next_page) ==
    [busy |-> TRUE, phase |-> "received", route |-> route, method |-> method,
     client |-> c, form |-> form, next_page |-> next_page, cookie |-> session[c],
     user_id |-> session[c], modified |-> FALSE, event |-> "none", reply |-> NoReply]

\* The handler returns a response; flash(message) writes to the session.
Answer(req, status, location, flash) ==
    [req EXCEPT !.phase = "responding",
                !.modified = (req.modified \/ flash # ""),
                !.reply = Reply(status, location, flash)]

Redirect(req, location, flash) == Answer(req, 302, location, flash)

\* LoginManager.unauthorized() with login_view = 'login': it flashes its
\* message and redirects to the login page.
Unauthorized(req) ==
    Redirect(req,
             IF req.route = "index" THEN "/login?next=%2F" ELSE "/login?next=%2Flogout",
             "Please log in to access this page.")

\* An unhandled exception in a view: 500 Internal Server Error.  The session
\* is saved with the response when the application's error handling
\* finalizes it, and is not when the exception propagates to the server
\* (debug mode): either may be the build.
ServerError(req, saved) ==
    [req EXCEPT !.phase = "responding",
                !.modified = (req.modified /\ saved),
                !.event = IF saved THEN req.event ELSE "none",
                !.reply = Reply(500, "", "")]

\* current_user.is_authenticated, tested by @login_required.
is_authenticated(req, us) == req.cookie # 0 /\ load_user(us, req.cookie) # << >>

\* The thread t is at the given phase of a request of the route.
At(t, route, phase) ==
    /\ pending[t].busy
    /\ pending[t].route = route
    /\ pending[t].phase = phase

\* The submissions to a route that have not come to their response.
InFlight(route) ==
    Cardinality({ t \in Threads : /\ pending[t].busy
                                  /\ pending[t].route = route
                                  /\ pending[t].method = "POST"
                                  /\ pending[t].phase # "responding" })

Init ==
    /\ users = << >>
    /\ entries = << >>
    /\ session = [c \in Clients |-> 0]
    /\ auth = [c \in Clients |-> "none"]
    /\ pending = [t \in Threads |-> Idle]

\* The server gives a request of browser c to the idle thread t; the request
\* carries the cookie the browser holds.
receive(t, c, route, method, form, next_page) ==
    /\ ~pending[t].busy
    /\ (route = "register" /\ method = "POST")
           => Len(users) + InFlight("register") < MaxUsers
    /\ (route = "index" /\ method = "POST")
           => Len(entries) + InFlight("index") < MaxEntries
    /\ pending' = [pending EXCEPT ![t] = Request(c, route, method, form, next_page)]
    /\ UNCHANGED <<users, entries, session, auth>>

\* The response of thread t is sent: a session that was written to is saved
\* to the browser's cookie.
save_session(req) ==
    IF req.modified THEN [session EXCEPT ![req.client] = req.user_id] ELSE session

respond(t) ==
    /\ pending[t].busy
    /\ pending[t].phase = "responding"
    /\ session' = save_session(pending[t])
    /\ auth' = IF pending[t].event # "none"
               THEN [auth EXCEPT ![pending[t].client] = pending[t].event]
               ELSE auth
    /\ pending' = [pending EXCEPT ![t] = Idle]
    /\ UNCHANGED <<users, entries>>

(***************************************************************************)
(* /register                                                               *)
(***************************************************************************)
\* register without the password-length test of line 85.
register_check_no_password_length(req, us) ==
    IF req.method = "GET" THEN Answer(req, 200, "", "")
    ELSE IF ~Truthy(req.form.username) \/ ~Truthy(req.form.password)
    THEN Redirect(req, "/register", "Username and password are required.")
    ELSE IF Len(req.form.username.v) < MinUsernameLen
    THEN Redirect(req, "/register",
             "Username must be at least 3 characters and password at least 6 characters.")
    ELSE IF filter_by_username(us, req.form.username.v) # << >>
    THEN Redirect(req, "/register", "Username already exists.")
    ELSE [req EXCEPT !.phase = "checked"]

\* Lines 79-90 and 96 of register, the table being us at line 88: the request
\* with its response, or at the phase "checked" when the handler goes on to
\* create the user.
register_check(req, us) ==
    IF req.method = "GET" THEN Answer(req, 200, "", "")
    ELSE IF ~Truthy(req.form.username) \/ ~Truthy(req.form.password)
    THEN Redirect(req, "/register", "Username and password are required.")
    ELSE IF Len(req.form.username.v) < MinUsernameLen
              \/ Len(req.form.password.v) < MinPasswordLen
    THEN Redirect(req, "/register",
             "Username must be at least 3 characters and password at least 6 characters.")
    ELSE IF filter_by_username(us, req.form.username.v) # << >>
    THEN Redirect(req, "/register", "Username already exists.")
    ELSE [req EXCEPT !.phase = "checked"]

\* Lines 91-93 of register: the table after the new user is committed.
register_commit(us, form, salt) ==
    db_add_commit(us, User(us, form.username.v,
                           generate_password_hash(form.password.v, salt)))

\* The handler on thread t, up to its return or, when the username is not in
\* the table at line 88, up to the commit.
register(t) ==
    /\ At(t, "register", "received")
    /\ pending' = [pending EXCEPT ![t] = register_check(pending[t], users)]
    /\ UNCHANGED <<users, entries, session, auth>>

\* The handler on thread t, from the commit of lines 91-93 to its return.
register_finish(t) ==
    /\ At(t, "register", "checked")
    /\ \E salt \in Salts : users' = register_commit(users, pending[t].form, salt)
    /\ pending' = [pending EXCEPT ![t] =
                      Redirect(pending[t], "/login",
                               "Registration successful! Please log in.")]
    /\ UNCHANGED <<entries, session, auth>>

(***************************************************************************)
(* /login and /logout                                                      *)
(***************************************************************************)
\* is_safe_url on the values of next the model sends, computed once.
safe_url == [target \in { n.v : n \in { x \in NextInputs : x.some } } |-> is_safe_url(target)]

\* Lines 110-112 of login, safe being what is_safe_url does.
RedirectNext(req, safe, saved) ==
    IF safe = "raise" THEN ServerError(req, saved)
    ELSE IF safe = "safe" THEN Redirect(req, req.next_page.v, "")
    ELSE Redirect(req, "/", "")

\* Lines 109-112 of login: the response once login_user has run.
login_redirect(req, saved) ==
    RedirectNext(req, IF Truthy(req.next_page) THEN safe_url[req.next_page.v] ELSE "unsafe",
                 saved)

FirstOf(found) == IF found # << >> THEN <<found[1]>> ELSE << >>

\* Lines 106-107 of login: the row the form's credentials match, the first row
\* of that username alone being looked at.
login_match(us, form) ==
    FirstOf(SelectSeq(FirstOf(filter_by_username(us, form.username.v)),
                      LAMBDA user : check_password_hash(user.password_hash, form.password.v)))

\* login_user(user): the request's session after it.
login_user(req, user) ==
    [req EXCEPT !.user_id = user.id, !.modified = TRUE, !.event = "login"]

\* Lines 108-112 of login.
login_success(req, user, saved) == login_redirect(login_user(req, user), saved)

\* Lines 100-114 of login, the table being us at line 106.
login_check(req, us, saved) ==
    IF req.method = "GET" THEN Answer(req, 200, "", "")
    ELSE IF ~Truthy(req.form.username) \/ ~Truthy(req.form.password)
    THEN Redirect(req, "/login", "Username and password are required.")
    ELSE IF login_match(us, req.form) # << >>
    THEN login_success(req, login_match(us, req.form)[1], saved)
    ELSE Answer(req, 200, "", "Invalid username or password.")

\* The handler on thread t.
login(t) ==
    /\ At(t, "login", "received")
    /\ \E saved \in BOOLEAN :
           pending' = [pending EXCEPT ![t] = login_check(pending[t], users, saved)]
    /\ UNCHANGED <<users, entries, session, auth>>

\* logout_user(): the request's session after it.
logout_user(req) ==
    [req EXCEPT !.user_id = 0, !.modified = TRUE, !.event = "logout"]

\* The handler on thread t.
logout(t) ==
    /\ At(t, "logout", "received")
    /\ pending' = [pending EXCEPT ![t] =
                      IF ~is_authenticated(pending[t], users)
                      THEN Unauthorized(pending[t])
                      ELSE Redirect(logout_user(pending[t]), "/login",
                                    "Logged out successfully.")]
    /\ UNCHANGED <<users, entries, session, auth>>

(***************************************************************************)
(* /                                                                       *)
(***************************************************************************)
\* Lines 129-134 of index: the message of the early return, "" when the form
\* passes.
index_check(form) ==
    IF ~Truthy(form.addiction_type) \/ ~Truthy(form.description)
    THEN "Addiction type and description are required."
    ELSE IF Len(form.addiction_type.v) > MaxCategoryLen
              \/ Len(form.description.v) > MaxDescriptionLen
    THEN "Addiction type cannot exceed 100 characters and description cannot exceed 1000 characters."
    ELSE ""

\* Line 135 of index.
user_input(form) ==
    "I am struggling with " \o form.addiction_type.v
        \o ". Here's what I'm going through: " \o form.description.v

\* Entry creation that takes the first user for the owner.
index_commit_first_user(es, user_id, form, xai_response) ==
    db_add_commit(es, Entry(es, 1, form.addiction_type.v, form.description.v,
                            xai_response))

\* Lines 137-144 of index: the table after the new entry is committed.
index_commit(es, user_id, form, xai_response) ==
    db_add_commit(es, Entry(es, user_id, form.addiction_type.v, form.description.v,
                            xai_response))

\* current_user of a request that @login_required has let through.
current_user(req, us) == load_user(us, req.cookie)[1]

\* Lines 147-148 of index: the query of the entries of current_user, the
\* user that @login_required has loaded for the request, and the page.
index_listing(req, us, es) ==
    [Answer(req, 200, "", "") EXCEPT !.reply.listing = entries_of(es, current_user(req, us).id)]

\* Lines 124-135 of index, load_user of @login_required included: the request
\* with its response, or at the phase "querying" when the handler of a GET
\* goes on to the query of line 147, or at the phase "calling" when that of
\* a POST goes on to call the completion service.
index_begin(req, us) ==
    IF ~is_authenticated(req, us) THEN Unauthorized(req)
    ELSE IF req.method = "GET" THEN [req EXCEPT !.phase = "querying"]
    ELSE IF index_check(req.form) # "" THEN Redirect(req, "/", index_check(req.form))
    ELSE [req EXCEPT !.phase = "calling"]

\* The handler on thread t, up to its return or, for a GET, up to the query
\* of line 147 or, for a form that passes the tests, up to the call of the
\* completion service at line 136.
index(t) ==
    /\ At(t, "index", "received")
    /\ pending' = [pending EXCEPT ![t] = index_begin(pending[t], users)]
    /\ UNCHANGED <<users, entries, session, auth>>

\* The handler of a GET on thread t, from the query of line 147 to its
\* return: the listing is read from the entries stored at this step.
index_entries(t) ==
    /\ At(t, "index", "querying")
    /\ pending' = [pending EXCEPT ![t] = index_listing(pending[t], users, entries)]
    /\ UNCHANGED <<users, entries, session, auth>>

\* Lines 136-146 once get_xai_response has ended in xai_response: the
\* exception leaves the handler, or the entry is committed for current_user,
\* the user of the session the request carried.
index_end(t, svc, xai_response) ==
    IF xai_response.raised
    THEN /\ pending' = [pending EXCEPT ![t] =
                           [ServerError(pending[t], TRUE) EXCEPT !.reply.svc = svc]]
         /\ UNCHANGED entries
    ELSE /\ entries' = index_commit(entries, current_user(pending[t], users).id,
                                    pending[t].form, xai_response.text)
         /\ pending' = [pending EXCEPT ![t] =
                           [Redirect(pending[t], "/", "Entry saved successfully.")
                               EXCEPT !.reply.svc = svc]]

\* The handler on thread t, from the outcome svc of requests.post to its return.
index_finish(t, svc) ==
    /\ At(t, "index", "calling")
    /\ index_end(t, svc, get_xai_response(user_input(pending[t].form), svc))
    /\ UNCHANGED <<users, session, auth>>

(***************************************************************************)
(* Specifications.  Each sends the requests it names on two request        *)
(* threads; they differ in the browsers and the forms.                     *)
(***************************************************************************)
\* The thread a new request is given: the first that is idle.
NextThread == IF ~pending["t1"].busy THEN "t1" ELSE "t2"

Accounts == { [username |-> Some("bob"), password |-> Some("secret1")],
              [username |-> Some("eve"), password |-> Some("hunter22")] }
ServiceAccount == [username |-> Some("bob"), password |-> Some("secret1")]

RegisterForms == [username : {None, Some(""), Some("al"), Some("bob"), Some("eve")},
                  password : {None, Some("12345"), Some("secret1")}]
LoginForms == [username : {None, Some(""), Some("bob"), Some("eve")},
               password : {None, Some("secret1"), Some("hunter22")}]

GoodReply == Response(200, Json(JsonReply))
BadReply == Response(200, Json(JsonError))

JournalForms ==
    { [addiction_type |-> Some(Rep("c", MaxCategoryLen)),
       description |-> Some(Rep("d", MaxDescriptionLen))],
      [addiction_type |-> Some(Rep("c", MaxCategoryLen)),
       description |-> Some(Rep("d", MaxDescriptionLen + 1))] }

\* One browser, whose requests overlap on the two threads.
OneBrowser == {"browserA"}

\* Logins: one account in one browser, every kind of credential form, every
\* value of next.
Next ==
    \/ \E c \in OneBrowser : receive(NextThread, c, "register", "POST", ServiceAccount, None)
    \/ \E c \in OneBrowser : receive(NextThread, c, "login", "GET", NoForm, None)
    \/ \E c \in OneBrowser, form \in LoginForms :
           receive(NextThread, c, "login", "POST", form, None)
    \/ \E c \in OneBrowser, next_page \in NextInputs :
           receive(NextThread, c, "login", "POST", ServiceAccount, next_page)
    \/ \E c \in OneBrowser : receive(NextThread, c, "logout", "GET", NoForm, None)
    \/ \E c \in OneBrowser : receive(NextThread, c, "index", "GET", NoEntryForm, None)
    \/ \E t \in Threads : register(t)
    \/ \E t \in Threads : register_finish(t)
    \/ \E t \in Threads : login(t)
    \/ \E t \in Threads : logout(t)
    \/ \E t \in Threads : index(t)
    \/ \E t \in Threads : index_entries(t)
    \/ \E t \in Threads : respond(t)

Spec == Init /\ [][Next]_vars

\* The journal: two accounts that take turns at one browser; entries within
\* and beyond the limits; a completion service that replies or sends a body
\* without choices.
NextJournal ==
    \/ \E c \in OneBrowser, form \in Accounts :
           receive(NextThread, c, "register", "POST", form, None)
    \/ \E c \in OneBrowser, form \in Accounts :
           receive(NextThread, c, "login", "POST", form, None)
    \/ \E c \in OneBrowser : receive(NextThread, c, "logout", "GET", NoForm, None)
    \/ \E c \in OneBrowser : receive(NextThread, c, "index", "GET", NoEntryForm, None)
    \/ \E c \in OneBrowser, form \in JournalForms :
           receive(NextThread, c, "index", "POST", form, None)
    \/ \E t \in Threads : register(t)
    \/ \E t \in Threads : register_finish(t)
    \/ \E t \in Threads : login(t)
    \/ \E t \in Threads : logout(t)
    \/ \E t \in Threads : index(t)
    \/ \E t \in Threads : index_entries(t)
    \/ \E t \in Threads, svc \in {GoodReply, BadReply} : index_finish(t, svc)
    \/ \E t \in Threads : respond(t)

SpecJournal == Init /\ [][NextJournal]_vars

\* The completion service: one account, every entry form, every outcome of
\* the call.
NextService ==
    \/ \E c \in OneBrowser : receive(NextThread, c, "register", "POST", ServiceAccount, None)
    \/ \E c \in OneBrowser : receive(NextThread, c, "login", "POST", ServiceAccount, None)
    \/ \E c \in OneBrowser : receive(NextThread, c, "logout", "GET", NoForm, None)
    \/ \E c \in OneBrowser : receive(NextThread, c, "index", "GET", NoEntryForm, None)
    \/ \E c \in OneBrowser, form \in EntryForms :
           receive(NextThread, c, "index", "POST", form, None)
    \/ \E t \in Threads : register(t)
    \/ \E t \in Threads : register_finish(t)
    \/ \E t \in Threads : login(t)
    \/ \E t \in Threads : logout(t)
    \/ \E t \in Threads : index(t)
    \/ \E t \in Threads : index_entries(t)
    \/ \E t \in Threads, svc \in ServiceOutcomes : index_finish(t, svc)
    \/ \E t \in Threads : respond(t)

SpecService == Init /\ [][NextService]_vars

\* Registrations alone, from two browsers: every kind of form.
NextRace ==
    \/ \E c \in Clients : receive(NextThread, c, "register", "GET", NoForm, None)
    \/ \E c \in Clients, form \in RegisterForms :
           receive(NextThread, c, "register", "POST", form, None)
    \/ \E t \in Threads : register(t)
    \/ \E t \in Threads : register_finish(t)
    \/ \E t \in Threads : respond(t)

SpecRace == Init /\ [][NextRace]_vars

(***************************************************************************)
(* What the claims speak of, stated on the stores, the cookies and the     *)
(* requests with their responses rather than on the handlers' own tests.   *)
(***************************************************************************)
Registered(name) == \E i \in DOMAIN users : users[i].username = name

HashesOf(password) == { generate_password_hash(password, salt) : salt \in Salts }

\* The form names a stored user and gives the password that user registered.
CredentialsValid(form) ==
    /\ Truthy(form.username)
    /\ Truthy(form.password)
    /\ \E i \in DOMAIN users :
          /\ users[i].username = form.username.v
          /\ users[i].password_hash \in HashesOf(form.password.v)

\* The registration form has a username of 3 or more and a password of 6 or more.
LongEnough(form) ==
    /\ Truthy(form.username)
    /\ Truthy(form.password)
    /\ Len(form.username.v) >= MinUsernameLen
    /\ Len(form.password.v) >= MinPasswordLen

FormWithinLimits(form) ==
    /\ Truthy(form.addiction_type)
    /\ Truthy(form.description)
    /\ Len(form.addiction_type.v) <= MaxCategoryLen
    /\ Len(form.description.v) <= MaxDescriptionLen

HasContent(v) ==
    /\ "choices" \in DOMAIN v
    /\ Len(v.choices) >= 1
    /\ "message" \in DOMAIN v.choices[1]
    /\ "content" \in DOMAIN v.choices[1].message

\* A network failure, a status outside 2xx, or a malformed body.
ServiceFails(svc) ==
    \/ svc.kind = "connection_error"
    \/ /\ svc.kind = "response"
       /\ \/ svc.status_code < 200
          \/ svc.status_code >= 300
          \/ ~svc.body.json
          \/ ~HasContent(svc.body.value)

\* table' is table with one row appended.
OneMore(table, after) ==
    /\ Len(after) = Len(table) + 1
    /\ SubSeq(after, 1, Len(table)) = table

\* table' holds table as a prefix.
Grown(table, after) ==
    /\ Len(after) >= Len(table)
    /\ SubSeq(after, 1, Len(table)) = table

\* The handler of thread t takes a step from the given phase of a request to
\* the route.
Runs(t, route, phase) == At(t, route, phase) /\ pending'[t] # pending[t]

\* The same for a POST.
Submits(t, route, phase) == Runs(t, route, phase) /\ pending[t].method = "POST"

\* The handler of thread t returns its response in this step.
Returns(t) == pending'[t].busy /\ pending'[t].phase = "responding"

\* The response of thread t is sent to the browser.
Responds(t) == pending[t].busy /\ pending[t].phase = "responding" /\ ~pending'[t].busy

\* The response of a failed login: it carries one of the two messages.
LoginFailure(req) ==
    /\ req.route = "login"
    /\ req.method = "POST"
    /\ req.reply.flash \in {"Invalid username or password.",
                            "Username and password are required."}

ToLogin(r) == r.status = 302 /\ r.location \in {"/login?next=%2F", "/login?next=%2Flogout"}

\* The target resolves, against the host URL, to http or https on this host.
OnThisHost(test_url) ==
    /\ test_url.ok
    /\ test_url.scheme \in {"http", "https"}
    /\ test_url.netloc = "localhost"

ResolvesHere(joined) == joined.ok /\ OnThisHost(urlparse(joined.url, ""))

SameOrigin(target) == ResolvesHere(urljoin(HostUrl, target))

(***************************************************************************)
(* C1.  Whenever the completion-service call of a valid entry submission   *)
(* fails (network failure, non-2xx status, malformed body), the handler    *)
(* still returns a redirect to the listing, and exactly one new entry is   *)
(* stored for the user of the request, its reply the fallback string.      *)
(***************************************************************************)
C1_FallbackOnEveryFailure ==
    [][\A t \in Threads :
           (/\ Submits(t, "index", "calling")
            /\ FormWithinLimits(pending[t].form)
            /\ ServiceFails(pending'[t].reply.svc))
           => /\ Returns(t)
              /\ pending'[t].reply.status = 302
              /\ pending'[t].reply.location = "/"
              /\ OneMore(entries, entries')
              /\ entries'[Len(entries')].user_id = pending[t].cookie
              /\ entries'[Len(entries')].response = FallbackReply]_vars

(***************************************************************************)
(* C2.  A failed login POST, whatever its cause (a missing field, an       *)
(* unknown username, a wrong password), establishes no session: after its  *)
(* response the browser's session is authenticated only as it was before.  *)
(***************************************************************************)
C2_FailedLoginNoSession ==
    [][\A t \in Threads :
           (Responds(t) /\ LoginFailure(pending[t]))
               => \A c \in Clients : session'[c] # 0 => session'[c] = session[c]]_vars

(***************************************************************************)
(* C3.  A successful login redirects to next when next resolves to http or *)
(* https on the current host, and to the index page for every other next;  *)
(* it never redirects to another host.                                     *)
(***************************************************************************)
C3_RedirectStaysOnHost ==
    [][\A t \in Threads :
           (Submits(t, "login", "received") /\ CredentialsValid(pending[t].form))
               => /\ Returns(t)
                  /\ pending'[t].reply.status = 302
                  /\ IF /\ Truthy(pending[t].next_page)
                        /\ SameOrigin(pending[t].next_page.v)
                     THEN pending'[t].reply.location = pending[t].next_page.v
                     ELSE pending'[t].reply.location = "/"
                  /\ SameOrigin(pending'[t].reply.location)]_vars

(***************************************************************************)
(* C4.  A registration POST whose username is missing or shorter than 3,   *)
(* or whose password is missing or shorter than 6, creates no user: no     *)
(* step of it changes the user store, and it is answered by a redirect to  *)
(* the registration form.  One with a username of 3 or more, a password of *)
(* 6 or more and a username that is unused when it is looked up goes on to *)
(* create the user, and the creation adds exactly one user, holding a hash *)
(* of the password and not the password, and is answered by a redirect to  *)
(* login.  Nothing else changes the user store.                            *)
(***************************************************************************)
C4_RegistrationValidation ==
    [][/\ \A t \in Threads :
              Submits(t, "register", "received")
                  => /\ users' = users
                     /\ ~LongEnough(pending[t].form)
                            => /\ Returns(t)
                               /\ pending'[t].reply.status = 302
                               /\ pending'[t].reply.location = "/register"
                     /\ (/\ LongEnough(pending[t].form)
                         /\ ~Registered(pending[t].form.username.v))
                            => pending'[t].phase = "checked"
       /\ \A t \in Threads :
              Submits(t, "register", "checked")
                  => /\ LongEnough(pending[t].form)
                     /\ OneMore(users, users')
                     /\ users'[Len(users')].username = pending[t].form.username.v
                     /\ users'[Len(users')].password_hash # pending[t].form.password.v
                     /\ users'[Len(users')].password_hash
                            \in HashesOf(pending[t].form.password.v)
                     /\ Returns(t)
                     /\ pending'[t].reply.status = 302
                     /\ pending'[t].reply.location = "/login"
       /\ users' # users => \E t \in Threads : Submits(t, "register", "checked")]_vars

\* A too-short password has been turned away while a user was already stored.
C4_ShortPasswordRejected ==
    \E t \in Threads :
        /\ At(t, "register", "responding")
        /\ pending[t].method = "POST"
        /\ Truthy(pending[t].form.username)
        /\ Truthy(pending[t].form.password)
        /\ Len(pending[t].form.username.v) >= MinUsernameLen
        /\ Len(pending[t].form.password.v) < MinPasswordLen
        /\ pending[t].reply.location = "/register"
        /\ Len(users) >= 1

(***************************************************************************)
(* C5.  A registration of a username that is already stored leaves the     *)
(* user store as it was, whatever password it supplies, and, when that     *)
(* password has 6 characters or more, shows "Username already exists.".    *)
(***************************************************************************)
C5_DuplicateRejected ==
    [][\A t \in Threads :
           (/\ \/ Submits(t, "register", "received")
               \/ Submits(t, "register", "checked")
            /\ Truthy(pending[t].form.username)
            /\ Registered(pending[t].form.username.v))
           => /\ users' = users
              /\ LongEnough(pending[t].form)
                     => /\ Returns(t)
                        /\ pending'[t].reply.flash = "Username already exists."]_vars

(***************************************************************************)
(* C6.  An entry submission by an authenticated user is stored as one new  *)
(* entry exactly when both fields are non-empty, the category has at most  *)
(* 100 characters and the description at most 1000; otherwise it stores    *)
(* nothing and the completion service is not called.                       *)
(***************************************************************************)
C6_StoredIffWithinLimits ==
    [][/\ \A t \in Threads :
              (Submits(t, "index", "received") /\ pending[t].cookie # 0)
                  => /\ entries' = entries
                     /\ IF FormWithinLimits(pending[t].form)
                        THEN pending'[t].phase = "calling"
                        ELSE /\ Returns(t)
                             /\ pending'[t].reply.svc = NotCalled
                             /\ pending'[t].reply.status = 302
       /\ \A t \in Threads :
              Submits(t, "index", "calling")
                  => /\ FormWithinLimits(pending[t].form)
                     /\ OneMore(entries, entries')
                     /\ entries'[Len(entries')].addiction_type
                            = pending[t].form.addiction_type.v
                     /\ entries'[Len(entries')].description = pending[t].form.description.v
       /\ entries' # entries => \E t \in Threads : Submits(t, "index", "calling")]_vars

(***************************************************************************)
(* C7.  A browser's session is authenticated exactly when its last         *)
(* authentication event is a successful login; only the response of a      *)
(* login with valid credentials makes it so and only that of a logout ends *)
(* it; registration and failed logins leave every session as it was; a     *)
(* protected route (/, /logout) redirects a request whose session is       *)
(* anonymous to /login and changes no store, and serves one whose session  *)
(* is authenticated.                                                       *)
(***************************************************************************)
C7_SessionGate ==
    [][/\ \A c \in Clients : (session'[c] # 0) <=> (auth'[c] = "login")
       /\ session' # session => \E t \in Threads : Responds(t)
       /\ \A t \in Threads :
              Responds(t)
                  => /\ \A c \in Clients \ {pending[t].client} : session'[c] = session[c]
                     /\ \A c \in Clients :
                            (session'[c] # session[c] /\ session'[c] # 0)
                                => /\ pending[t].route = "login"
                                   /\ pending[t].method = "POST"
                                   /\ ~LoginFailure(pending[t])
                                   /\ users[session'[c]].username
                                          = pending[t].form.username.v
                     /\ \A c \in Clients :
                            (session'[c] # session[c] /\ session'[c] = 0)
                                => pending[t].route = "logout"
                     /\ pending[t].route = "register" => session' = session
                     /\ LoginFailure(pending[t]) => session' = session
       /\ \A t \in Threads :
              (Runs(t, "index", "received") \/ Runs(t, "logout", "received"))
                  => /\ Returns(t) \/ pending'[t].phase \in {"querying", "calling"}
                     /\ IF pending[t].cookie = 0
                        THEN /\ Returns(t)
                             /\ ToLogin(pending'[t].reply)
                             /\ UNCHANGED <<users, entries>>
                        ELSE /\ ~ToLogin(pending'[t].reply)
                             /\ pending[t].route = "logout"
                                    => /\ pending'[t].user_id = 0
                                       /\ pending'[t].reply.location = "/login"
                             /\ (pending[t].route = "index" /\ pending[t].method = "GET")
                                    => pending'[t].phase = "querying"
       /\ \A t \in Threads :
              Runs(t, "index", "querying")
                  => /\ pending[t].cookie # 0
                     /\ Returns(t)
                     /\ pending'[t].reply.status = 200
                     /\ UNCHANGED <<users, entries>>]_vars

(***************************************************************************)
(* C8.  A GET of the listing whose session is authenticated as a user goes *)
(* on to read the listing, and the listing returned to it holds, when it   *)
(* is read (the query of line 147, a step after the user is loaded),       *)
(* exactly the entries stored at that time that the user owns, each once,  *)
(* latest creation time first; when it is sent it holds stored entries of  *)
(* that user only.                                                         *)
(***************************************************************************)
C8_ListingIsOwnEntriesLatestFirst ==
    [][/\ \A t \in Threads :
              (/\ Runs(t, "index", "received")
               /\ pending[t].method = "GET"
               /\ pending[t].cookie # 0)
                  => /\ pending'[t].phase = "querying"
                     /\ pending'[t].cookie = pending[t].cookie
       /\ \A t \in Threads :
              Runs(t, "index", "querying")
                  => LET uid == pending[t].cookie
                         l == pending'[t].reply.listing
                         own == { k \in DOMAIN entries : entries[k].user_id = uid }
                     IN  /\ uid # 0
                         /\ Returns(t)
                         /\ pending'[t].reply.status = 200
                         /\ \A i \in DOMAIN l : l[i].user_id = uid
                         /\ \A i \in DOMAIN l : \E k \in own : entries[k] = l[i]
                         /\ \A k \in own : \E i \in DOMAIN l : l[i] = entries[k]
                         /\ Len(l) = Cardinality(own)
                         /\ \A i \in 1..(Len(l) - 1) :
                                l[i].created_at >= l[i + 1].created_at
       /\ \A t \in Threads :
              (/\ Responds(t)
               /\ pending[t].route = "index"
               /\ pending[t].method = "GET"
               /\ pending[t].reply.status = 200)
                  => LET uid == pending[t].cookie
                         l == pending[t].reply.listing
                     IN  /\ uid # 0
                         /\ \A i \in DOMAIN l :
                                /\ l[i].user_id = uid
                                /\ \E k \in DOMAIN entries : entries[k] = l[i]
                         /\ \A i \in 1..(Len(l) - 1) :
                                l[i].created_at >= l[i + 1].created_at]_vars

\* A listing of two entries has been read while another user's entry was stored.
C8_TwoOwnOneForeign ==
    \E t \in Threads :
        /\ At(t, "index", "responding")
        /\ pending[t].method = "GET"
        /\ Len(pending[t].reply.listing) >= 2
        /\ \E k \in DOMAIN entries : entries[k].user_id # pending[t].cookie

(***************************************************************************)
(* C9.  No two stored users have the same username, also when two          *)
(* registrations of one unused username interleave.                        *)
(***************************************************************************)
C9_UniqueUsernames ==
    \A i, j \in DOMAIN users : users[i].username = users[j].username => i = j

(***************************************************************************)
(* C10.  Every stored entry's owner is a stored user, and is the user the  *)
(* session of the submitting request is authenticated as, from the time    *)
(* the request is received to the time the entry is created; no step       *)
(* changes or removes a stored user or entry.                              *)
(***************************************************************************)
C10_OwnersAndGrowth ==
    [][/\ Grown(users, users')
       /\ Grown(entries, entries')
       /\ \A k \in DOMAIN entries' : \E i \in DOMAIN users' : users'[i].id = entries'[k].user_id
       /\ \A t \in Threads :
              (~pending[t].busy /\ pending'[t].busy)
                  => pending'[t].cookie = session[pending'[t].client]
       /\ \A t \in Threads :
              (pending[t].busy /\ pending'[t].busy)
                  => /\ pending'[t].cookie = pending[t].cookie
                     /\ pending'[t].client = pending[t].client
                     /\ pending'[t].form = pending[t].form
       /\ Len(entries') > Len(entries)
              => /\ OneMore(entries, entries')
                 /\ \E t \in Threads :
                        /\ Submits(t, "index", "calling")
                        /\ pending[t].cookie # 0
                        /\ entries'[Len(entries')].user_id = pending[t].cookie]_vars

\* Entries of two owners are stored, one of them committed for a request
\* whose browser has logged out before the response.
C10_TwoOwners ==
    /\ \E j, k \in DOMAIN entries : entries[j].user_id # entries[k].user_id
    /\ \E t \in Threads :
           /\ At(t, "index", "responding")
           /\ pending[t].reply.flash = "Entry saved successfully."
           /\ auth[pending[t].client] = "logout"
           /\ session[pending[t].client] = 0
           /\ entries[Len(entries)].user_id = pending[t].cookie

====
